---- MODULE Spec2Model ----
(***************************************************************************)
(* A model of the OLG equilibrium solver (olg_solver/core.py and           *)
(* olg_solver/components.py).                                              *)
(*                                                                         *)
(* Numbers.  The program computes in floating point; the model computes    *)
(* in fixed point on a grid of resolution 1/Den:                           *)
(*   - endowments, A, G, transfer_payment and g are whole numbers;         *)
(*   - tax rates, population shares, delta and the interest rate R are     *)
(*     numerators over Den (R = Rn/Den, tax_rate_young = ty/Den, ...);     *)
(*   - consumption, net income and savings are numerators over Den;        *)
(*   - private savings, tax revenue, public savings, investment and the    *)
(*     market imbalance are numerators over Den*Den;                       *)
(*   - alpha is kept in halves (alpha = alpha2/2), the values for which    *)
(*     the exponent 1/(1-alpha) is a whole number.                         *)
(* scipy's minimize and brentq are library code: they are modelled by      *)
(* what they hand back to the program (a result with a success flag, a     *)
(* root, a raised exception), chosen nondeterministically.                 *)
(***************************************************************************)
EXTENDS Integers, Sequences, FiniteSets, TLC

Den == 2
MaxRn == 4
CMin == 0 - 1
MaxC == 3
ImbalanceTol == 1

\* Python's None, as a value that carries no field but the mark itself.
None == [isNone |-> TRUE]

Abs(n) == IF n < 0 THEN 0 - n ELSE n

\* ------------------------------------------------------------------------
\* components.py

\* Government.__init__: stores the four policy parameters as given.
GovernmentInit(tax_rate_young, tax_rate_old, G, transfer_payment) ==
    [isNone |-> FALSE,
     tax_rate_young |-> tax_rate_young,
     tax_rate_old |-> tax_rate_old,
     G |-> G,
     transfer_payment |-> transfer_payment]

\* Firm.__init__: stores A, alpha and delta as given (alpha in halves).
FirmInit(A, alpha2, delta) ==
    [isNone |-> FALSE, A |-> A, alpha2 |-> alpha2, delta |-> delta]

\* The denominator r + delta of the capital/labor ratio, over Den:
\* r = R - 1 = (Rn - Den)/Den.
RentalCost(firm, Rn) == (Rn - Den) + firm.delta

\* Whether (A*alpha/(r+delta))**(1/(1-alpha)) divides by zero: r+delta = 0
\* in the base, or alpha = 1 in the exponent.
CapitalLaborRaises(firm, Rn) == RentalCost(firm, Rn) = 0 \/ firm.alpha2 = 2

\* (A*alpha/(r+delta))**(1/(1-alpha)) as a numerator over Den*Den, rounded
\* towards minus infinity.  A*alpha/(r+delta) = (A*alpha2*Den)/(2*x) with
\* x = RentalCost; the exponent is 1 for alpha = 0 and 2 for alpha = 1/2.
CapitalLaborRatio(firm, Rn) ==
    LET num == firm.A * firm.alpha2 * Den
        den == 2 * RentalCost(firm, Rn)
    IN IF firm.alpha2 = 1
       THEN (Den * Den * num * num) \div (den * den)
       ELSE (Den * Den * num) \div den

\* k**alpha for k the capital/labor ratio, as a numerator over Den*Den:
\* |A*alpha/(r+delta)| for alpha = 1/2, and 1 for alpha = 0.
CapitalPowAlpha(firm, Rn) ==
    LET num == firm.A * firm.alpha2 * Den
        den == 2 * RentalCost(firm, Rn)
    IN IF firm.alpha2 = 1
       THEN (Den * Den * Abs(num)) \div Abs(den)
       ELSE Den * Den

\* w_eq = A * (1 - alpha) * k_l_ratio**alpha, over Den*Den.
WageEq(firm, Rn) ==
    (firm.A * (2 - firm.alpha2) * CapitalPowAlpha(firm, Rn)) \div 2

\* Firm.solve(r, w): K_d = capital_labor_ratio * L_d with L_d = 1, output =
\* A * K_d**alpha * L_d**(1-alpha), profit = output - (r+delta)*K_d - w*L_d.
FirmSolve(firm, Rn, w) ==
    LET K_d == CapitalLaborRatio(firm, Rn)
        output == firm.A * CapitalPowAlpha(firm, Rn)
    IN [capital_demand |-> K_d,
        labor_demand |-> 1,
        output |-> output,
        profit |-> output - ((RentalCost(firm, Rn) * K_d) \div Den) - w]

\* ------------------------------------------------------------------------
\* core.py: Agent

\* Agent.__init__: stores the utility function and the two endowments.
AgentInit(utility_func, endowment_young, endowment_old) ==
    [utility_func |-> utility_func,
     endowment_young |-> endowment_young,
     endowment_old |-> endowment_old]

\* The caller's utility function, applied.  "linear" is c_young + c_old;
\* the value of any other function is not computed and stands as 0.
Utility(utility_func, c_young, c_old) ==
    IF utility_func = "linear" THEN c_young + c_old ELSE 0

\* net_income_young = endowment_young * (1 - tax_rate_young), over Den.
NetIncomeYoung(agent, government) ==
    agent.endowment_young * (Den - government.tax_rate_young)

\* net_income_old = endowment_old * (1 - tax_rate_old) + transfer_payment,
\* over Den.
NetIncomeOld(agent, government) ==
    agent.endowment_old * (Den - government.tax_rate_old)
        + Den * government.transfer_payment

\* budget_constraint(consumption) = pdv_resources - pdv_consumption,
\* multiplied through by R (Rn /= 0), as a numerator over Den*Den.
BudgetResidual(agent, Rn, g, government, c_young, c_old) ==
    (Rn * NetIncomeYoung(agent, government)
        + Den * NetIncomeOld(agent, government) * (1 + g))
    - (Rn * c_young + Den * c_old)

\* initial_guess = [endowment_young / 2, endowment_old / 2], over Den.
InitialGuess(agent) ==
    <<(agent.endowment_young * Den) \div 2, (agent.endowment_old * Den) \div 2>>

\* What minimize(objective, initial_guess, constraints, tol) can hand back.
\* Dividing by R = 0 in budget_constraint raises out of minimize.  Otherwise
\* an OptimizeResult: success = False with x wherever the search stopped,
\* or success = True with x a point the equality constraint holds at.  No
\* bounds are passed, so x need not be positive.
MinimizeOutcomes(agent, Rn, g, government) ==
    IF Rn = 0
    THEN {[raised |-> "ZeroDivisionError", success |-> FALSE, x |-> <<0, 0>>]}
    ELSE {[raised |-> "none", success |-> FALSE, x |-> InitialGuess(agent)]}
         \cup
         {[raised |-> "none", success |-> TRUE, x |-> <<cy, co>>] :
            <<cy, co>> \in
              {p \in (CMin..MaxC) \X (CMin..(MaxC * MaxRn)) :
                 BudgetResidual(agent, Rn, g, government, p[1], p[2]) = 0}}

\* SavingsStar taken off the gross endowment instead of net income.
SavingsStarGross(agent, government, c_young_star) ==
    (agent.endowment_young * Den) - c_young_star

\* savings_star = endowment_young * (1 - tax_rate_young) - c_young_star.
SavingsStar(agent, government, c_young_star) ==
    (agent.endowment_young * (Den - government.tax_rate_young)) - c_young_star

\* AgentSolveReturn without the test of solution.success.
AgentSolveReturnUnchecked(agent, government, solution) ==
    [isNone |-> FALSE,
     c_young |-> solution.x[1],
     c_old |-> solution.x[2],
     savings |-> (agent.endowment_young * (Den - government.tax_rate_young))
                    - solution.x[1],
     utility |-> Utility(agent.utility_func, solution.x[1], solution.x[2])]

\* Agent.solve after minimize returned `solution`: None unless
\* solution.success, else the decision record.
AgentSolveReturn(agent, government, solution) ==
    IF ~solution.success
    THEN None
    ELSE [isNone |-> FALSE,
          c_young |-> solution.x[1],
          c_old |-> solution.x[2],
          savings |-> SavingsStar(agent, government, solution.x[1]),
          utility |-> Utility(agent.utility_func, solution.x[1], solution.x[2])]

\* ------------------------------------------------------------------------
\* core.py: Economy

\* Economy.__init__: a missing government becomes Government().
EconomyInit(population, g, firm, government) ==
    [population |-> population,
     g |-> g,
     firm |-> firm,
     government |-> IF government.isNone
                    THEN GovernmentInit(0, 0, 0, 0)
                    ELSE government]

\* Accumulate with the endowments counted for a failed solve as well.
AccumulateCountsFailed(d, agent, share) ==
    <<IF d.isNone THEN 0 ELSE d.savings * share,
      agent.endowment_young * share,
      agent.endowment_old * share>>

\* The body of the loop in get_market_imbalance after agent.solve returned
\* `d`: what is added to private_savings, total_young_endowment and
\* total_old_endowment (nothing when d is None).
Accumulate(d, agent, share) ==
    IF ~d.isNone
    THEN <<d.savings * share,
           agent.endowment_young * share,
           agent.endowment_old * share>>
    ELSE <<0, 0, 0>>

\* The tail of Economy.get_market_imbalance (after the loop over the
\* population): investment, public savings, national savings and the value
\* returned, all numerators over Den*Den.
Investment(economy, Rn) ==
    IF economy.firm.isNone
    THEN 0
    ELSE FirmSolve(economy.firm, Rn, WageEq(economy.firm, Rn)).capital_demand

TotalTaxRevenue(government, total_young_endowment, total_old_endowment) ==
    government.tax_rate_young * total_young_endowment
        + government.tax_rate_old * total_old_endowment

\* PublicSavings with the transfer payment left out.
PublicSavingsWithoutTransfer(government, total_young_endowment, total_old_endowment) ==
    TotalTaxRevenue(government, total_young_endowment, total_old_endowment)
        - Den * Den * government.G

PublicSavings(government, total_young_endowment, total_old_endowment) ==
    TotalTaxRevenue(government, total_young_endowment, total_old_endowment)
        - Den * Den * government.G
        - Den * Den * government.transfer_payment

\* MarketImbalanceReturn with public savings left out of national savings.
MarketImbalancePrivateOnly(economy, Rn, private_savings_, total_young_, total_old_) ==
    private_savings_ - Investment(economy, Rn)

MarketImbalanceReturn(economy, Rn, private_savings_, total_young_, total_old_) ==
    LET public_savings == PublicSavings(economy.government, total_young_, total_old_)
        national_savings == private_savings_ + public_savings
    IN national_savings - Investment(economy, Rn)

\* ------------------------------------------------------------------------
\* The inputs the model draws the economy from.

Saver == AgentInit("linear", 2, 1)
Borrower == AgentInit("linear", 1, 2)
Indebted == AgentInit("linear", 0 - 1, 2)

\* A population is the dict's items in insertion order: <<agent, share>>.
Populations ==
    { << <<Saver, Den>> >>,
      << <<Saver, 1>>, <<Borrower, Den - 1>> >>,
      << <<Borrower, Den - 1>>, <<Saver, 1>> >>,
      << <<Saver, 1>>, <<Borrower, Den>> >>,
      << <<Indebted, 1>>, <<Saver, Den - 1>> >> }

\* No firm; alpha = 1/2 with delta = 0 and with delta = 1/Den; alpha = 0
\* and alpha = 1.
Firms ==
    {None, FirmInit(2, 1, 0), FirmInit(2, 1, 1), FirmInit(2, 0, 0),
     FirmInit(2, 2, 0)}

\* No government (the default policy), and three policies that between
\* them set each of the four parameters.
Governments ==
    {None,
     GovernmentInit(1, 0, 0, 0),
     GovernmentInit(0, 1, 0, 1),
     GovernmentInit(1, 1, 1, 1)}

Economies ==
    {EconomyInit(p, g, f, gov) :
        p \in Populations, g \in 0..1, f \in Firms, gov \in Governments}

\* ------------------------------------------------------------------------
\* State

VARIABLES
    economy,        \* Solver.economy: the Economy under solution
    pc,             \* where control is: idle, loop, brentq, done
    R,              \* get_market_imbalance's argument (Rn)
    idx,            \* position of the for-loop in population.items()
    private_savings,
    total_young_endowment,
    total_old_endowment,
    solution,       \* the last result of minimize
    decision,       \* the last value Agent.solve returned
    decisions,      \* the values Agent.solve returned in this evaluation
    imbalance,      \* the last value get_market_imbalance returned
    bq,             \* brentq's variables
    evals,          \* the points brentq has evaluated, with their values
    result,         \* what find_equilibrium_R returned
    escaped,        \* the exception that left find_equilibrium_R, or "none"
    printed,        \* what find_equilibrium_R printed
    call,           \* the arguments find_equilibrium_R was called with
    attempts,       \* the brackets this call has handed to brentq, in order
    replay,         \* whether the run goes on to call find_equilibrium_R again
    minimized,      \* the answers minimize has given, by its arguments
    stepped,        \* the points brentq has stepped to, by its variables
    repeat,         \* the first call's outcome, once a second call is made
    sweep           \* ComparativeStatics: base_config and run's locals

vars == <<economy, pc, R, idx, private_savings, total_young_endowment,
          total_old_endowment, solution, decision, decisions, imbalance,
          bq, evals, result, escaped, printed, call, attempts, replay,
          minimized, stepped, repeat, sweep>>

loopVars == <<R, idx, private_savings, total_young_endowment,
              total_old_endowment, solution, decision, decisions>>

\* What no step inside find_equilibrium_R touches.
sessionVars == <<replay, repeat, sweep>>

NoSolution == [raised |-> "none", success |-> FALSE, x |-> <<0, 0>>]

BqIdle ==
    [a |-> 0, b |-> 0, phase |-> "none", iterations |-> 0,
     xpre |-> 0, fpre |-> 0, xcur |-> 0, fcur |-> 0, xblk |-> 0, fblk |-> 0]

NoCall == [R_min |-> 0, R_max |-> 0]

\* No further call has been made; economy0 is the Economy as constructed.
\* Once one is made, the record keeps how the first call ended.
NoRepeat(economy0) ==
    [kind |-> "none", economy |-> economy0, call |-> NoCall, evals |-> {},
     result |-> None, escaped |-> "none"]

\* No ComparativeStatics object is in play.
NoSweep == [active |-> FALSE]

\* No Economy has been constructed yet.
NoEconomy == None

\* A Solver just constructed on `e`, nothing called yet.
SolverInit(e) ==
    /\ economy = e
    /\ R = 0
    /\ idx = 1
    /\ private_savings = 0
    /\ total_young_endowment = 0
    /\ total_old_endowment = 0
    /\ solution = NoSolution
    /\ decision = None
    /\ decisions = <<>>
    /\ imbalance = 0
    /\ bq = BqIdle
    /\ evals = {}
    /\ result = None
    /\ escaped = "none"
    /\ printed = <<>>
    /\ call = NoCall
    /\ attempts = <<>>
    /\ minimized = {}
    /\ stepped = {}
    /\ repeat = NoRepeat(e)

Init ==
    /\ \E e \in Economies : SolverInit(e)
    /\ pc = "idle"
    /\ replay = FALSE
    /\ sweep = NoSweep

\* ------------------------------------------------------------------------
\* core.py: Solver.find_equilibrium_R, with brentq inside its try block

FailureMessage ==
    "Solver failed: The market imbalance function may not cross zero in the given bracket."

\* How find_equilibrium_R ends when `exc` is raised inside the try block:
\* `except ValueError` prints the message and returns None; any other
\* exception leaves the method.
Raise(exc) ==
    /\ pc' = "done"
    /\ IF exc = "ValueError"
       THEN /\ printed' = Append(printed, FailureMessage)
            /\ result' = None
            /\ escaped' = "none"
       ELSE /\ escaped' = exc
            /\ UNCHANGED <<printed, result>>

\* How find_equilibrium_R ends when brentq returns the root x.
Return(x) ==
    /\ pc' = "done"
    /\ result' = [isNone |-> FALSE, R |-> x]
    /\ UNCHANGED <<printed, escaped>>

\* CallImbalance with the three totals kept on the object between calls
\* and never set back to zero.
CallImbalanceKeepsTotals(x) ==
    /\ pc' = "loop"
    /\ R' = x
    /\ idx' = 1
    /\ decisions' = <<>>
    /\ UNCHANGED <<private_savings, total_young_endowment, total_old_endowment,
                   solution, decision>>

\* brentq calls get_market_imbalance(x): the method's locals are set up
\* (private_savings = 0, total_young_endowment = 0, total_old_endowment = 0)
\* and the loop over population.items() starts.
CallImbalance(x) ==
    /\ pc' = "loop"
    /\ R' = x
    /\ idx' = 1
    /\ private_savings' = 0
    /\ total_young_endowment' = 0
    /\ total_old_endowment' = 0
    /\ decisions' = <<>>
    /\ UNCHANGED <<solution, decision>>

SignBit(v) == v < 0

\* The head of brentq's loop: re-bracket when the last two values differ
\* in sign, then keep in xcur the end with the smaller |f|.
BrentqBracket(s) ==
    LET s1 == IF s.fpre # 0 /\ s.fcur # 0 /\ SignBit(s.fpre) # SignBit(s.fcur)
              THEN [s EXCEPT !.xblk = s.xpre, !.fblk = s.fpre]
              ELSE s
    IN IF Abs(s1.fblk) < Abs(s1.fcur)
       THEN [s1 EXCEPT !.xpre = s1.xcur, !.xcur = s1.xblk, !.xblk = s1.xcur,
                       !.fpre = s1.fcur, !.fcur = s1.fblk, !.fblk = s1.fcur]
       ELSE s1

\* BrentqConverged with a tolerance of two steps of the grid.
BrentqConvergedLoose(s) == s.fcur = 0 \/ Abs(s.xblk - s.xcur) <= 2

\* brentq's stopping test: an exact zero, or a bracket no wider than the
\* tolerance (one step of the grid).
BrentqConverged(s) == s.fcur = 0 \/ Abs(s.xblk - s.xcur) <= 1

\* The points brentq may try next: strictly between xcur and xblk.
BrentqNextPoints(s) ==
    {x \in 0..MaxRn :
        \/ s.xcur < x /\ x < s.xblk
        \/ s.xblk < x /\ x < s.xcur}

\* brentq computes its next point from its variables alone: from variables
\* it has stepped from before it steps to the same point again.
BrentqSteps(s) ==
    IF \E m \in stepped : m[1] = s
    THEN {m[2] : m \in {n \in stepped : n[1] = s}}
    ELSE BrentqNextPoints(s)

\* One pass of brentq's loop from the state s (fcur just evaluated): stop
\* with xcur, or step to a new point and evaluate the imbalance there.
BrentqLoop(s) ==
    LET t == BrentqBracket([s EXCEPT !.iterations = s.iterations + 1])
    IN IF BrentqConverged(t)
       THEN /\ Return(t.xcur)
            /\ bq' = t
            /\ UNCHANGED loopVars
            /\ UNCHANGED stepped
       ELSE \E x \in BrentqSteps(t) :
              /\ bq' = [t EXCEPT !.xpre = t.xcur, !.fpre = t.fcur, !.xcur = x,
                                 !.phase = "iter"]
              /\ stepped' = IF replay THEN stepped \cup {<<t, x>>} ELSE stepped
              /\ CallImbalance(x)
              /\ UNCHANGED <<result, escaped, printed>>

\* find_equilibrium_R's default bracket [1.01, 1.5] placed on the grid of
\* R: from R = 1 to two grid steps above it, so that the bracket keeps a
\* point inside as [1.01, 1.5] does.
DefaultRMin == Den
DefaultRMax == Den + 2

\* brentq(f, a, b) is entered, after the attempts in `made`: it starts by
\* evaluating f(a).
BrentqCall(a, b, made) ==
    /\ attempts' = Append(made, <<a, b>>)
    /\ bq' = [BqIdle EXCEPT !.a = a, !.b = b, !.phase = "fpre",
                            !.xpre = a, !.xcur = b]
    /\ evals' = {}
    /\ CallImbalance(a)

\* find_equilibrium_R(R_min, R_max) is entered: nothing is returned or
\* raised yet, and the try block hands the bracket to brentq.
FindEquilibriumR(R_min, R_max) ==
    /\ call' = [R_min |-> R_min, R_max |-> R_max]
    /\ result' = None
    /\ escaped' = "none"
    /\ BrentqCall(R_min, R_max, <<>>)
    /\ UNCHANGED <<imbalance, printed, minimized, stepped>>

\* minimize is a function of its arguments: to arguments it has answered
\* before it gives the same answer again.
MinimizeAnswers(agent, Rn, g, government) ==
    LET key == <<agent, Rn, g, government>>
    IN IF \E m \in minimized : m[1] = key
       THEN {m[2] : m \in {n \in minimized : n[1] = key}}
       ELSE MinimizeOutcomes(agent, Rn, g, government)

\* `total = term` in place of `total += term`.
AddToOverwrites(total, term) == term

\* `total += term`, the accumulation on each of the loop's three totals.
AddTo(total, term) == total + term

\* One pass of the loop in get_market_imbalance: agent.solve, and the three
\* accumulations when it returned a decision.
SolveAgent ==
    /\ pc = "loop"
    /\ idx <= Len(economy.population)
    /\ LET agent == economy.population[idx][1]
           share == economy.population[idx][2]
       IN \E sol \in MinimizeAnswers(agent, R, economy.g, economy.government) :
            /\ solution' = sol
            /\ minimized' =
                 IF replay
                 THEN minimized \cup
                        {<< <<agent, R, economy.g, economy.government>>, sol >>}
                 ELSE minimized
            /\ IF sol.raised # "none"
               THEN /\ Raise(sol.raised)
                    /\ UNCHANGED <<idx, private_savings, total_young_endowment,
                                   total_old_endowment, decision, decisions>>
               ELSE LET d == AgentSolveReturn(agent, economy.government, sol)
                    IN /\ decision' = d
                       /\ decisions' = Append(decisions, d)
                       /\ idx' = idx + 1
                       /\ private_savings' =
                            AddTo(private_savings, Accumulate(d, agent, share)[1])
                       /\ total_young_endowment' =
                            AddTo(total_young_endowment,
                                  Accumulate(d, agent, share)[2])
                       /\ total_old_endowment' =
                            AddTo(total_old_endowment,
                                  Accumulate(d, agent, share)[3])
                       /\ UNCHANGED <<pc, result, escaped, printed>>
    /\ UNCHANGED <<economy, R, imbalance, bq, evals, call, attempts, stepped>>
    /\ UNCHANGED sessionVars

\* The rest of get_market_imbalance once the loop is over: the firm's
\* capital demand (which may divide by zero), public and national savings,
\* and the return to brentq.
Aggregate ==
    /\ pc = "loop"
    /\ idx > Len(economy.population)
    /\ IF ~economy.firm.isNone /\ CapitalLaborRaises(economy.firm, R)
       THEN /\ Raise("ZeroDivisionError")
            /\ UNCHANGED <<imbalance, evals>>
       ELSE LET v == MarketImbalanceReturn(economy, R, private_savings,
                                           total_young_endowment, total_old_endowment)
            IN /\ imbalance' = v
               /\ evals' = evals \cup {<<R, v>>}
               /\ pc' = "brentq"
               /\ UNCHANGED <<result, escaped, printed>>
    /\ UNCHANGED <<economy, bq, call, attempts, minimized, stepped>>
    /\ UNCHANGED loopVars
    /\ UNCHANGED sessionVars

\* brentq has f(a): it evaluates f(b).
BrentqFirst ==
    /\ pc = "brentq"
    /\ bq.phase = "fpre"
    /\ bq' = [bq EXCEPT !.fpre = imbalance, !.phase = "fcur"]
    /\ CallImbalance(bq.b)
    /\ UNCHANGED <<economy, imbalance, evals, result, escaped, printed>>
    /\ UNCHANGED <<call, attempts, minimized, stepped>>
    /\ UNCHANGED sessionVars

\* BrentqSecond with one more try: when the signs are equal on the bracket
\* given, brentq is called again on the default bracket before giving up.
BrentqSecondRetries ==
    /\ pc = "brentq"
    /\ bq.phase = "fcur"
    /\ LET s == [bq EXCEPT !.fcur = imbalance]
       IN IF s.fpre = 0
          THEN /\ Return(s.xpre) /\ bq' = s
               /\ UNCHANGED <<loopVars, stepped, evals, attempts>>
          ELSE IF s.fcur = 0
          THEN /\ Return(s.xcur) /\ bq' = s
               /\ UNCHANGED <<loopVars, stepped, evals, attempts>>
          ELSE IF SignBit(s.fpre) = SignBit(s.fcur)
          THEN IF Len(attempts) < 2
               THEN /\ BrentqCall(DefaultRMin, DefaultRMax, attempts)
                    /\ UNCHANGED <<result, escaped, printed, stepped>>
               ELSE /\ Raise("ValueError") /\ bq' = s
                    /\ UNCHANGED <<loopVars, stepped, evals, attempts>>
          ELSE BrentqLoop(s) /\ UNCHANGED <<evals, attempts>>
    /\ UNCHANGED <<economy, imbalance, call, minimized>>
    /\ UNCHANGED sessionVars

\* brentq has f(a) and f(b): a zero at an end is returned, equal signs
\* raise ValueError, otherwise the loop starts.
BrentqSecond ==
    /\ pc = "brentq"
    /\ bq.phase = "fcur"
    /\ LET s == [bq EXCEPT !.fcur = imbalance]
       IN IF s.fpre = 0
          THEN Return(s.xpre) /\ bq' = s /\ UNCHANGED <<loopVars, stepped>>
          ELSE IF s.fcur = 0
          THEN Return(s.xcur) /\ bq' = s /\ UNCHANGED <<loopVars, stepped>>
          ELSE IF SignBit(s.fpre) = SignBit(s.fcur)
          THEN Raise("ValueError") /\ bq' = s /\ UNCHANGED <<loopVars, stepped>>
          ELSE BrentqLoop(s)
    /\ UNCHANGED <<economy, imbalance, evals, call, attempts, minimized>>
    /\ UNCHANGED sessionVars

\* brentq has the value at its new point: the next pass of its loop.
BrentqIterate ==
    /\ pc = "brentq"
    /\ bq.phase = "iter"
    /\ BrentqLoop([bq EXCEPT !.fcur = imbalance])
    /\ UNCHANGED <<economy, imbalance, evals, call, attempts, minimized>>
    /\ UNCHANGED sessionVars

Brackets == {<<lo, hi>> \in (0..MaxRn) \X (0..MaxRn) : lo < hi}

\* The caller's one call of find_equilibrium_R on the Solver it built.
Call ==
    /\ pc = "idle"
    /\ \E br \in Brackets : FindEquilibriumR(br[1], br[2])
    /\ UNCHANGED economy
    /\ UNCHANGED sessionVars

Next ==
    \/ Call
    \/ SolveAgent
    \/ Aggregate
    \/ BrentqFirst
    \/ BrentqSecond
    \/ BrentqIterate

Spec == Init /\ [][Next]_vars

\* ------------------------------------------------------------------------
\* A caller that calls find_equilibrium_R more than once

\* Economies of two agent types: a saver and a borrower, or an agent in
\* debt and a saver; an endowment economy, or one with a firm and a
\* government.
RepeatEconomies ==
    {EconomyInit(p, 1, fg[1], fg[2]) :
        p \in { << <<Saver, 1>>, <<Borrower, Den - 1>> >>,
                << <<Indebted, 1>>, <<Saver, Den - 1>> >> },
        fg \in { <<None, None>>,
                 <<FirmInit(2, 1, 1), GovernmentInit(1, 1, 1, 1)>> }}

\* The brackets of the first call: one around R = 1 that brentq has to
\* narrow, one of a single grid step, and one that starts at R = 0.
RepeatBrackets == {<<Den - 1, MaxRn>>, <<Den, Den + 1>>, <<0, Den>>}

InitRepeat ==
    /\ \E e \in RepeatEconomies : SolverInit(e)
    /\ pc = "idle"
    /\ replay = TRUE
    /\ sweep = NoSweep

\* The first call of find_equilibrium_R on the Solver.
CallFirst ==
    /\ pc = "idle"
    /\ replay
    /\ \E br \in RepeatBrackets : FindEquilibriumR(br[1], br[2])
    /\ UNCHANGED economy
    /\ UNCHANGED sessionVars

\* What the caller holds when the first call is over.
FirstOutcome(kind) ==
    [kind |-> kind, economy |-> repeat.economy, call |-> call, evals |-> evals,
     result |-> result, escaped |-> escaped]

\* The repeated call: the same Solver, the first call's bracket.
CallAgain ==
    /\ pc = "done"
    /\ replay
    /\ repeat.kind = "none"
    /\ repeat' = FirstOutcome("again")
    /\ FindEquilibriumR(call.R_min, call.R_max)
    /\ UNCHANGED <<economy, replay, sweep>>

Reverse(q) == [i \in 1..Len(q) |-> q[Len(q) + 1 - i]]

\* The same agents, firm and government in a new Economy whose population
\* lists the agents in the other order.
Swapped(e) == EconomyInit(Reverse(e.population), e.g, e.firm, e.government)

\* A Solver on the swapped Economy is called with the first call's bracket.
CallSwapped ==
    /\ pc = "done"
    /\ replay
    /\ repeat.kind = "none"
    /\ repeat' = FirstOutcome("swapped")
    /\ economy' = Swapped(economy)
    /\ FindEquilibriumR(call.R_min, call.R_max)
    /\ UNCHANGED <<replay, sweep>>

NextRepeat ==
    \/ CallFirst
    \/ SolveAgent
    \/ Aggregate
    \/ BrentqFirst
    \/ BrentqSecond
    \/ BrentqIterate
    \/ CallAgain
    \/ CallSwapped

SpecRepeat == InitRepeat /\ [][NextRepeat]_vars

\* ------------------------------------------------------------------------
\* analysis.py: ComparativeStatics

MaxValues == 2

\* The baseline dictionaries: beta, phi, g, the two endowments, and
\* firm_params and gov_params either both absent or both present.
BaseConfigs ==
    {[beta |-> 1, phi |-> 1, g |-> 1,
      endowments |->
        [saver |-> [endowment_young |-> 2, endowment_old |-> 1],
         borrower |-> [endowment_young |-> 1, endowment_old |-> 2]],
      firm_params |-> fg[1], gov_params |-> fg[2]] :
        fg \in { <<None, None>>,
                 <<FirmInit(2, 1, 1), GovernmentInit(1, 0, 0, 0)>> }}

\* The keys run() is asked to vary, and the values tried for each: two
\* growth rates; a firm with alpha = 1/2 and one with alpha = 1.
SweepParameters == {"g", "firm_params"}
SweepValues(parameter_to_vary) ==
    IF parameter_to_vary = "g"
    THEN {0, 1}
    ELSE {FirmInit(2, 1, 1), FirmInit(2, 2, 0)}

\* The lists of at most MaxValues values, the empty list among them.
ValueLists(parameter_to_vary) ==
    UNION {[1..n -> SweepValues(parameter_to_vary)] : n \in 0..MaxValues}

\* ComparativeStatics.__init__ keeps the dictionary it is given; `given` is
\* that dictionary as the caller built it.
ComparativeStaticsInit(base_config, parameter_to_vary, values) ==
    [active |-> TRUE, base_config |-> base_config, given |-> base_config,
     parameter_to_vary |-> parameter_to_vary, values |-> values,
     i |-> 1, results_list |-> <<>>, returned |-> <<>>, raised |-> "none"]

\* The Economy run() builds from current_config: the saver with share phi
\* first, then the borrower with 1 - phi; a firm and a government when the
\* dictionary has their parameters.
BuildEconomy(current_config) ==
    EconomyInit(
        << <<AgentInit("log", current_config.endowments.saver.endowment_young,
                       current_config.endowments.saver.endowment_old),
             current_config.phi>>,
           <<AgentInit("log", current_config.endowments.borrower.endowment_young,
                       current_config.endowments.borrower.endowment_old),
             Den - current_config.phi>> >>,
        current_config.g, current_config.firm_params, current_config.gov_params)

InitSweep ==
    /\ SolverInit(NoEconomy)
    /\ pc = "sweep"
    /\ replay = FALSE
    /\ \E base_config \in BaseConfigs, parameter_to_vary \in SweepParameters :
         \E values \in ValueLists(parameter_to_vary) :
           sweep = ComparativeStaticsInit(base_config, parameter_to_vary, values)

\* One pass of run()'s loop up to the solve: the copy of base_config with
\* the varied key set, the Economy and the Solver built from it, and
\* find_equilibrium_R() called on its default bracket.
SweepIterate ==
    /\ pc = "sweep"
    /\ sweep.i <= Len(sweep.values)
    /\ LET current_config ==
             [sweep.base_config EXCEPT
                ![sweep.parameter_to_vary] = sweep.values[sweep.i]]
       IN economy' = BuildEconomy(current_config)
    /\ FindEquilibriumR(DefaultRMin, DefaultRMax)
    /\ UNCHANGED sessionVars

\* find_equilibrium_R returned: the row is appended and the loop goes on.
SweepAppend ==
    /\ pc = "done"
    /\ sweep.active
    /\ escaped = "none"
    /\ sweep' = [sweep EXCEPT
                   !.results_list =
                      Append(@, [param_value |-> sweep.values[sweep.i],
                                 R_star |-> result]),
                   !.i = @ + 1]
    /\ pc' = "sweep"
    /\ UNCHANGED <<economy, loopVars, imbalance, bq, evals, result, escaped,
                   printed, call, attempts, replay, minimized, stepped, repeat>>

\* An exception left find_equilibrium_R: run() has no handler, so it
\* leaves run() too and results_list is lost with the frame.
SweepRaise ==
    /\ pc = "done"
    /\ sweep.active
    /\ escaped # "none"
    /\ sweep' = [sweep EXCEPT !.raised = escaped]
    /\ pc' = "raised"
    /\ UNCHANGED <<economy, loopVars, imbalance, bq, evals, result, escaped,
                   printed, call, attempts, replay, minimized, stepped, repeat>>

\* The loop is over: run() returns the DataFrame of results_list.
SweepReturn ==
    /\ pc = "sweep"
    /\ sweep.i > Len(sweep.values)
    /\ sweep' = [sweep EXCEPT !.returned = sweep.results_list]
    /\ pc' = "returned"
    /\ UNCHANGED <<economy, loopVars, imbalance, bq, evals, result, escaped,
                   printed, call, attempts, replay, minimized, stepped, repeat>>

NextSweep ==
    \/ SweepIterate
    \/ SolveAgent
    \/ Aggregate
    \/ BrentqFirst
    \/ BrentqSecond
    \/ BrentqIterate
    \/ SweepAppend
    \/ SweepRaise
    \/ SweepReturn

SpecSweep == InitSweep /\ [][NextSweep]_vars

\* ------------------------------------------------------------------------
\* Properties

RECURSIVE SeqSum(_)
SeqSum(q) == IF Len(q) = 0 THEN 0 ELSE q[1] + SeqSum(Tail(q))

\* The agents of this evaluation whose solve returned a decision.
Solved == {i \in 1..Len(decisions) : ~decisions[i].isNone}
Failed == {i \in 1..Len(decisions) : decisions[i].isNone}

AgentAt(i) == economy.population[i][1]
ShareAt(i) == economy.population[i][2]

\* Sums over the solved agents only, from the decisions returned.
SolvedSavings ==
    SeqSum([i \in 1..Len(decisions) |->
              IF i \in Solved THEN ShareAt(i) * decisions[i].savings ELSE 0])
SolvedYoungEndowment ==
    SeqSum([i \in 1..Len(decisions) |->
              IF i \in Solved THEN ShareAt(i) * AgentAt(i).endowment_young ELSE 0])
SolvedOldEndowment ==
    SeqSum([i \in 1..Len(decisions) |->
              IF i \in Solved THEN ShareAt(i) * AgentAt(i).endowment_old ELSE 0])

\* The bracket find_equilibrium_R was called with has both ends evaluated
\* and the imbalance changes sign (or is zero) between them.
SignChangeOnBracket ==
    \E p \in evals, q \in evals :
        /\ p[1] = bq.a
        /\ q[1] = bq.b
        /\ (p[2] = 0 \/ q[2] = 0 \/ SignBit(p[2]) # SignBit(q[2]))

\* C1: when find_equilibrium_R ends on a bracket across which the imbalance
\* does not change sign, it has returned None and no exception has left it,
\* whatever fault the root finder or the imbalance evaluation produced.
C1_NoSignChangeReturnsNone ==
    (pc = "done" /\ ~SignChangeOnBracket) => (result.isNone /\ escaped = "none")

\* C2: the failure returned for a bracket without a sign change carries the
\* bracket (R_min, R_max) and the imbalance measured at both ends.
C2_FailureCarriesBracket ==
    (pc = "done" /\ escaped = "none" /\ result.isNone) =>
        /\ {"R_min", "R_max", "f_min", "f_max"} \subseteq DOMAIN result
        /\ result.R_min = bq.a
        /\ result.R_max = bq.b
        /\ <<bq.a, result.f_min>> \in evals
        /\ <<bq.b, result.f_max>> \in evals

\* C3: in get_market_imbalance an agent whose solve returned None adds
\* nothing to private savings nor to either endowment total, the other
\* agents' contributions are what they are without it, and the evaluation
\* goes on to return a number: the only errors that leave it are divisions
\* by zero (R = 0, or the firm's formula), never a failed solve.
C3_FailedSolveContributesZero ==
    /\ Len(decisions) = idx - 1
    /\ private_savings = SolvedSavings
    /\ total_young_endowment = SolvedYoungEndowment
    /\ total_old_endowment = SolvedOldEndowment
    /\ (pc = "brentq" => imbalance \in Int)
    /\ (escaped # "none" =>
          R = 0 \/ (~economy.firm.isNone /\ CapitalLaborRaises(economy.firm, R)))

\* An evaluation has returned in which one agent failed and another solved.
C3_Witness ==
    /\ pc = "brentq"
    /\ Failed # {}
    /\ Solved # {}
    /\ \E i \in Solved : decisions[i].savings # 0

\* C4: the value get_market_imbalance returns is nationalSavings -
\* investment, with nationalSavings = privateSavings + publicSavings,
\* privateSavings the share-weighted savings of the solved agents,
\* publicSavings = taxRateYoung*totalYoung + taxRateOld*totalOld - G -
\* transfer, and investment the firm's capital demand, or 0 without a firm.
C4_ImbalanceFormula ==
    pc = "brentq" =>
        LET gov == economy.government
            publicSavings ==
                gov.tax_rate_young * SolvedYoungEndowment
                    + gov.tax_rate_old * SolvedOldEndowment
                    - Den * Den * gov.G - Den * Den * gov.transfer_payment
            nationalSavings == SolvedSavings + publicSavings
            investment ==
                IF economy.firm.isNone
                THEN 0
                ELSE FirmSolve(economy.firm, R, WageEq(economy.firm, R)).capital_demand
        IN imbalance = nationalSavings - investment

\* An evaluation has returned for an economy with a firm and a government
\* that taxes, spends and transfers, with every agent solved.
C4_Witness ==
    /\ pc = "brentq"
    /\ ~economy.firm.isNone
    /\ economy.government.tax_rate_young > 0
    /\ economy.government.transfer_payment > 0
    /\ economy.government.G > 0
    /\ Len(decisions) = 2
    /\ Failed = {}
    /\ FirmSolve(economy.firm, R, WageEq(economy.firm, R)).capital_demand > 0

\* C5 as claimed: without a firm the imbalance returned is aggregate private
\* savings, whatever the fiscal policy.
C5_NoFirmImbalanceIsPrivateSavings ==
    (pc = "brentq" /\ economy.firm.isNone) => imbalance = SolvedSavings

\* C5 as amended: without a firm the imbalance returned is aggregate private
\* savings plus public savings; it is private savings alone when the fiscal
\* policy is the default one (no tax, no spending, no transfer).
C5_NoFirmImbalanceIsNationalSavings ==
    (pc = "brentq" /\ economy.firm.isNone) =>
        LET gov == economy.government
        IN /\ imbalance - SolvedSavings =
                gov.tax_rate_young * SolvedYoungEndowment
                    + gov.tax_rate_old * SolvedOldEndowment
                    - Den * Den * (gov.G + gov.transfer_payment)
           /\ (gov = GovernmentInit(0, 0, 0, 0) => imbalance = SolvedSavings)

\* An evaluation has returned for a firmless economy whose government
\* taxes, with an agent solved.
C5_Witness ==
    /\ pc = "brentq"
    /\ economy.firm.isNone
    /\ economy.government.tax_rate_young > 0
    /\ Solved # {}
    /\ imbalance # SolvedSavings

\* What the spec's data model asks of an economy: no negative endowment,
\* shares that sum to 1, and alpha strictly between 0 and 1 (alpha2 = 1).
ValidEconomy(e) ==
    /\ \A i \in 1..Len(e.population) :
          /\ e.population[i][1].endowment_young >= 0
          /\ e.population[i][1].endowment_old >= 0
    /\ SeqSum([i \in 1..Len(e.population) |-> e.population[i][2]]) = Den
    /\ (e.firm.isNone \/ e.firm.alpha2 = 1)

\* C6: an agent with a negative endowment, a population whose shares do not
\* sum to 1 and a firm with alpha outside (0,1) are rejected when they are
\* constructed, so no solve or imbalance evaluation runs on such an economy.
C6_InvalidInputsRejectedAtConstruction ==
    pc # "idle" => ValidEconomy(economy)

\* C7: Agent.solve returns None exactly when the optimizer's result says it
\* did not succeed, and the decision it returns otherwise is built from the
\* point of that successful result.
C7_SolveFailsIffOptimizerFails ==
    solution.raised = "none" =>
        /\ decision.isNone <=> ~solution.success
        /\ ~decision.isNone =>
              /\ DOMAIN decision = {"isNone", "c_young", "c_old", "savings", "utility"}
              /\ decision.c_young = solution.x[1]
              /\ decision.c_old = solution.x[2]

\* Within one evaluation, a solve has failed and the next one has returned
\* a decision.
C7_Witness ==
    /\ Len(decisions) = 2
    /\ decisions[1].isNone
    /\ ~decision.isNone
    /\ solution.success
    /\ solution.x # InitialGuess(AgentAt(2))

\* C8: the savings of every decision returned equal endowment_young *
\* (1 - taxRateYoung) - c_young: after-tax young income less the c_young
\* returned; transfer, old-age tax and growth do not enter.
C8_SavingsOffNetYoungIncome ==
    \A i \in Solved :
        decisions[i].savings =
            AgentAt(i).endowment_young * (Den - economy.government.tax_rate_young)
                - decisions[i].c_young

\* A decision has been returned under a young-age tax, an old-age tax, a
\* transfer and growth.
C8_Witness ==
    /\ Solved # {}
    /\ economy.government.tax_rate_young > 0
    /\ economy.government.tax_rate_old > 0
    /\ economy.government.transfer_payment > 0
    /\ economy.g > 0
    /\ \E i \in Solved : AgentAt(i).endowment_young > 0

\* C9: every decision returned has c_young > 0 and c_old > 0 and satisfies
\* the lifetime budget constraint.
C9_DecisionPositiveAndOnBudget ==
    \A i \in Solved :
        /\ decisions[i].c_young > 0
        /\ decisions[i].c_old > 0
        /\ BudgetResidual(AgentAt(i), R, economy.g, economy.government,
                          decisions[i].c_young, decisions[i].c_old) = 0

\* The value brentq measured at the point find_equilibrium_R returned.
ValuesAt(x) == {p[2] : p \in {q \in evals : q[1] = x}}

C11_RepeatedCallSameResult ==
    /\ repeat.kind # "swapped" => economy = repeat.economy
    /\ repeat.kind = "again" => evals \subseteq repeat.evals
    /\ (repeat.kind = "again" /\ pc = "done") =>
         (result = repeat.result /\ escaped = repeat.escaped)

\* The second call has returned a root, after evaluating the imbalance at
\* fresh totals at least twice.
C11_Witness ==
    /\ repeat.kind = "again"
    /\ pc = "done"
    /\ ~result.isNone
    /\ Cardinality(evals) >= 2
    /\ call = repeat.call

\* C12: on the Economy that lists the same two agent types in the other
\* order, find_equilibrium_R with the same bracket sees the same imbalance
\* at each point it evaluates and ends as the call on the first order ended.
C12_OrderOfAgentsIrrelevant ==
    /\ repeat.kind = "swapped" => evals \subseteq repeat.evals
    /\ (repeat.kind = "swapped" /\ pc = "done") =>
         (result = repeat.result /\ escaped = repeat.escaped)

\* The call on the swapped order has returned a root, with both agents'
\* solves succeeding at the last point evaluated.
C12_Witness ==
    /\ repeat.kind = "swapped"
    /\ pc = "done"
    /\ economy.population = Reverse(repeat.economy.population)
    /\ economy.population # repeat.economy.population
    /\ ~result.isNone
    /\ Len(decisions) = 2
    /\ \A i \in 1..2 : ~decisions[i].isNone

\* The rows run() has so far: one per value tried, in the order given, each
\* holding what find_equilibrium_R returned for it (None when it failed).
RowsFollowValues ==
    /\ Len(sweep.results_list) <= Len(sweep.values)
    /\ \A k \in 1..Len(sweep.results_list) :
         sweep.results_list[k].param_value = sweep.values[k]
    /\ (pc = "sweep" /\ sweep.i > 1) =>
         sweep.results_list[sweep.i - 1].R_star = result
    /\ pc = "returned" =>
         /\ sweep.returned = sweep.results_list
         /\ Len(sweep.returned) = Len(sweep.values)

\* C13: ComparativeStatics.run leaves base_config as it was given, never
\* ends without returning, and returns exactly one row per value in the
\* order given, a failed solve leaving a row whose R_star is missing.
C13_SweepOneRowPerValue ==
    sweep.active =>
        /\ sweep.base_config = sweep.given
        /\ RowsFollowValues
        /\ pc # "raised"

\* C14: from its entry to its return, find_equilibrium_R has handed brentq
\* exactly one bracket, the [R_min, R_max] it was called with, and every
\* point the imbalance was evaluated at lies in that bracket; this is so
\* when it returns None after a bracketing failure as in every other case.
C14_OneAttemptOnGivenBracket ==
    pc \in {"loop", "brentq", "done"} =>
        /\ attempts = << <<call.R_min, call.R_max>> >>
        /\ bq.a = call.R_min /\ bq.b = call.R_max
        /\ \A p \in evals : call.R_min <= p[1] /\ p[1] <= call.R_max
        /\ call.R_min <= R /\ R <= call.R_max

\* find_equilibrium_R has returned None after both ends of a bracket other
\* than the default one gave values of the same sign.
C14_Witness ==
    /\ pc = "done"
    /\ result.isNone
    /\ escaped = "none"
    /\ printed = <<FailureMessage>>
    /\ Cardinality(evals) = 2
    /\ ~SignChangeOnBracket
    /\ <<call.R_min, call.R_max>> # <<DefaultRMin, DefaultRMax>>
    /\ Len(attempts) = 1

====
